---- MODULE Spec2Model ----
(***************************************************************************)
(* Model of the Config-Updater (macro engine): the CM macro data model,    *)
(* the repository chain, getCmValue (macro resolution) and updateConfig    *)
(* (the in-place tree walk with $defaults inheritance).                    *)
(*                                                                         *)
(* JavaScript values are records [t, v]; objects live in a heap and are    *)
(* referred to by address, so that aliasing created by the code (a         *)
(* template entry assigned to a sibling, a repository value written into   *)
(* the tree) is visible.  Strings are sequences of characters, so that     *)
(* startsWith, substring, concatenation and split are computed.            *)
(***************************************************************************)
EXTENDS Integers, Sequences, FiniteSets, TLC

\* ------------------------------------------------------------------------
\* JavaScript values
\* ------------------------------------------------------------------------
Undef == [t |-> "undef", v |-> 0]
Null == [t |-> "null", v |-> 0]
Str(s) == [t |-> "str", v |-> s]
Num(n) == [t |-> "num", v |-> n]
Bool(b) == [t |-> "bool", v |-> b]
Ref(a) == [t |-> "ref", v |-> a]
Fn(f) == [t |-> "fn", v |-> f]

\* !x is false
Truthy(x) ==
    /\ x.t # "undef"
    /\ x.t # "null"
    /\ (x.t = "bool" => x.v)
    /\ (x.t = "num" => x.v # 0)
    /\ (x.t = "str" => x.v # <<>>)

\* x == undefined (loose): true for undefined and null only
LooseUndef(x) == x.t \in {"undef", "null"}

\* x && typeof x == "object"
IsObject(x) == x.t = "ref"

\* a != b where b is an object: objects compare by reference; a primitive is
\* compared with the object's string form ("[object Object]"), which no
\* string of the model's alphabet spells.
LooseNeq(a, b) == a # b

\* ------------------------------------------------------------------------
\* Reserved property names
\* ------------------------------------------------------------------------
KEY_KEY == <<"$", "$">>
DEFAULT_KEY == <<"$", "d", "e", "f", "a", "u", "l", "t">>
MANDATORY_KEY == <<"$", "m", "a", "n", "d", "a", "t", "o", "r", "y">>
CALLBACK_KEY == <<"$", "c", "a", "l", "l", "b", "a", "c", "k">>
PARENT_DEPENDENT_INDICATOR == <<"?">>
FALLBACK_KEY == <<"$", "d", "e", "f", "a", "u", "l", "t", "s">>
\* the literal string pushed on the path while a default is resolved
DEFAULT_PATH_MARKER ==
    <<"C", "M", ".", "D", "E", "F", "A", "U", "L", "T", "_", "K", "E", "Y">>
KEY_SEPARATOR == "/"

\* ------------------------------------------------------------------------
\* Heap objects: mappings and sequences
\* ------------------------------------------------------------------------
Digits == <<"0", "1", "2", "3", "4", "5", "6", "7", "8", "9">>
\* the property name of array index i (0-based)
IndexKey(i) == <<Digits[i + 1]>>
IsIndexKey(k, n) == \E i \in 0 .. (n - 1) : i < 10 /\ k = IndexKey(i)
IndexOf(k) == CHOOSE i \in 0 .. 9 : k = IndexKey(i)

IsArray(h, x) == x.t = "ref" /\ h[x.v].kind = "seq"

\* x.hasOwnProperty(k)
HasOwn(h, x, k) ==
    /\ x.t = "ref"
    /\ \/ \E i \in 1 .. Len(h[x.v].keys) : h[x.v].keys[i] = k
       \/ h[x.v].kind = "seq" /\ IsIndexKey(k, Len(h[x.v].elems))

\* x[k] for a string property name k
PropGet(h, x, k) ==
    IF x.t = "ref"
    THEN IF h[x.v].kind = "seq" /\ IsIndexKey(k, Len(h[x.v].elems))
         THEN h[x.v].elems[IndexOf(k) + 1]
         ELSE IF k \in DOMAIN h[x.v].val THEN h[x.v].val[k] ELSE Undef
    ELSE IF x.t = "str" /\ IsIndexKey(k, Len(x.v))
         THEN Str(<<x.v[IndexOf(k) + 1]>>)
         ELSE Undef

\* x[k] where k is a key as the traversal yields it: a string or a number
ElemGet(h, x, k) ==
    IF k.t = "num"
    THEN IF x.t = "ref" /\ h[x.v].kind = "seq" /\ k.v < Len(h[x.v].elems)
         THEN h[x.v].elems[k.v + 1]
         ELSE Undef
    ELSE PropGet(h, x, k.v)

\* x[k] = w for a string property name k
PropSet(h, a, k, w) ==
    IF h[a].kind = "seq" /\ IsIndexKey(k, Len(h[a].elems) + 1)
    THEN IF IndexOf(k) < Len(h[a].elems)
         THEN [h EXCEPT ![a].elems[IndexOf(k) + 1] = w]
         ELSE [h EXCEPT ![a].elems = Append(@, w)]
    ELSE IF k \in DOMAIN h[a].val
         THEN [h EXCEPT ![a].val[k] = w]
         ELSE [h EXCEPT ![a].keys = Append(@, k),
                        ![a].val = [j \in DOMAIN @ \cup {k} |->
                                       IF j = k THEN w ELSE @[j]]]

\* x[k] = w where k is a traversal key
ElemSet(h, a, k, w) ==
    IF k.t = "num"
    THEN [h EXCEPT ![a].elems[k.v + 1] = w]
    ELSE PropSet(h, a, k.v, w)

\* Object.keys(x): the own enumerable property names, indices first
ObjectKeys(h, x) ==
    IF x.t = "ref"
    THEN IF h[x.v].kind = "seq"
         THEN [i \in 1 .. Len(h[x.v].elems) |-> IndexKey(i - 1)] \o h[x.v].keys
         ELSE h[x.v].keys
    ELSE IF x.t = "str"
         THEN [i \in 1 .. Len(x.v) |-> IndexKey(i - 1)]
         ELSE <<>>

SeqIncludes(s, e) == \E i \in 1 .. Len(s) : s[i] = e

\* ------------------------------------------------------------------------
\* Strings
\* ------------------------------------------------------------------------
\* s.startsWith(prefix)
StartsWith(s, prefix) ==
    /\ Len(s) >= Len(prefix)
    /\ SubSeq(s, 1, Len(prefix)) = prefix

\* s.substring(n)
Substring(s, n) == SubSeq(s, n + 1, Len(s))

\* s.split("/"): the segments between separators; never an empty list
RECURSIVE SplitFrom(_, _, _)
SplitFrom(s, i, cur) ==
    IF i > Len(s) THEN <<cur>>
    ELSE IF s[i] = KEY_SEPARATOR
         THEN <<cur>> \o SplitFrom(s, i + 1, <<>>)
         ELSE SplitFrom(s, i + 1, Append(cur, s[i]))

Split(s) == SplitFrom(s, 1, <<>>)

\* ------------------------------------------------------------------------
\* Resolution results: the heap, the chain, the calls observed so far, the
\* outcome ("ok" or the error raised) and the value returned
\* ------------------------------------------------------------------------
World(h, reps, log) ==
    [h |-> h, reps |-> reps, log |-> log, st |-> "ok", val |-> Undef,
     by |-> Undef, final |-> Undef]

\* one observed call: a resolver asked ("query"), a default taken
\* ("default") or a callback invoked ("callback"), with the macro, the path
\* and the value that came back
Event(ev, idx, name, key, path, cm, res) ==
    [ev |-> ev, idx |-> idx, name |-> name, key |-> key, path |-> path,
     cm |-> cm, res |-> res]

\* an error: by is the macro that raised it, final the value of its local
\* variable result at that moment
Raise(W, err, cm) == [W EXCEPT !.st = err, !.val = Undef, !.by = cm, !.final = W.val]
Return(W, x) == [W EXCEPT !.val = x]

\* ------------------------------------------------------------------------
\* Resolvers
\* ------------------------------------------------------------------------
\* #default_resolver: descend one level per segment, undefined as soon as
\* the intermediate value is undefined or null
RECURSIVE default_resolver(_, _, _, _)
default_resolver(h, repository, splitSearchKey, i) ==
    IF i > Len(splitSearchKey) THEN repository
    ELSE LET next == PropGet(h, repository, splitSearchKey[i])
         IN IF LooseUndef(next) THEN Undef
            ELSE default_resolver(h, next, splitSearchKey, i + 1)

\* namePath.toString(): the segments joined with ","
RECURSIVE JoinComma(_, _)
JoinComma(segs, i) ==
    IF i > Len(segs) THEN <<>>
    ELSE (IF i > 1 THEN <<",">> ELSE <<>>) \o segs[i] \o JoinComma(segs, i + 1)

\* the resolver of one chain entry: the default one, or a custom function
\* given to register(): "custom" is the one of the test suite
\* (namePath.toString() + ":" + repository.value), "null" returns null for
\* every key; "dropSelf" and "addFirst" return undefined after they have
\* changed the chain (ResolverEffect)
CallResolver(h, entry, splitSearchKey) ==
    IF entry.resolver = "default"
    THEN default_resolver(h, entry.source, splitSearchKey, 1)
    ELSE IF entry.resolver = "custom"
         THEN Str(JoinComma(splitSearchKey, 1) \o <<":">>
                  \o PropGet(h, entry.source, <<"v">>).v)
         ELSE IF entry.resolver \in {"dropSelf", "addFirst"} THEN Undef
              ELSE Null

\* ------------------------------------------------------------------------
\* The chain: register and unregister
\* ------------------------------------------------------------------------
\* an entry of #repositories: [name, resolver, repository]
Entry(name, resolver, source) ==
    [name |-> name, resolver |-> resolver, source |-> source]

\* register(name, repository, index = 9999999, resolver = undefined)
DEFAULT_INDEX == 9999999

\* Array.prototype.splice(start, 0, item): a negative start counts from the
\* end, a start beyond the length is the length
\* variant: the item is always appended
SpliceStart_End(len, start) == len
SpliceStart(len, start) ==
    IF start < 0
    THEN (IF len + start < 0 THEN 0 ELSE len + start)
    ELSE (IF start > len THEN len ELSE start)
SpliceInsert(seq, start, item) ==
    SubSeq(seq, 1, SpliceStart(Len(seq), start)) \o <<item>>
        \o SubSeq(seq, SpliceStart(Len(seq), start) + 1, Len(seq))
\* splice(i, 1), i counted from 1
\* variant: the entry after it is removed as well
SpliceRemove_Two(seq, i) == SubSeq(seq, 1, i - 1) \o SubSeq(seq, i + 2, Len(seq))
SpliceRemove(seq, i) == SubSeq(seq, 1, i - 1) \o SubSeq(seq, i + 1, Len(seq))

\* the object the methods return for chaining

\* unregister(name): the first entry with that name is removed
RECURSIVE unregisterFrom(_, _, _)
unregisterFrom(W, name, i) ==
    IF i > Len(W.reps) THEN Return(W, Bool(FALSE))
    ELSE IF W.reps[i].name = name
         THEN Return([W EXCEPT !.reps = SpliceRemove(@, i)], Bool(TRUE))
         ELSE unregisterFrom(W, name, i + 1)
unregister(W, name) == unregisterFrom(W, name, 1)

\* resolver || this.#default_resolver
ResolverOrDefault(resolver) == IF Truthy(resolver) THEN resolver.v ELSE "default"

\* this.#repositories.splice(index, 0, [name, resolver || default, repository])
InsertEntry(W, name, repository, index, resolver) ==
    Return([W EXCEPT !.reps = SpliceInsert(@, index,
                                 Entry(name, ResolverOrDefault(resolver), repository))],
           Fn("ConfigUpdater"))

\* variant: the entry is inserted without removing the name first
register_KeepOld(W, name, repository, index, resolver) ==
    InsertEntry(W, name, repository, index, resolver)
register(W, name, repository, index, resolver) ==
    InsertEntry(unregister(W, name), name, repository, index, resolver)

\* ------------------------------------------------------------------------
\* getCmValue
\* ------------------------------------------------------------------------
\* the parent name of a parent-dependent key: scan the path backward; the
\* last entry is the key itself, array indices and the name of the array
\* are skipped
RECURSIVE SkipIndices(_, _)
SkipIndices(path, p) ==
    IF p >= 1 /\ path[p].t = "num" THEN SkipIndices(path, p - 1) ELSE p

RECURSIVE ParentFrom(_, _)
ParentFrom(path, p) ==
    IF p < 1 THEN <<>>
    ELSE IF path[p].t = "str"
         THEN IF p < Len(path) THEN path[p].v ELSE ParentFrom(path, p - 1)
         ELSE ParentFrom(path, SkipIndices(path, p) - 1)

\* variant: the nearest name before the node's own entry, the name of an
\* enclosing array included
ParentOf_Nearest(path) ==
    IF \E q \in 1 .. Len(path) - 1 : path[q].t = "str"
    THEN path[CHOOSE q \in 1 .. Len(path) - 1 :
                  path[q].t = "str" /\ \A r \in (q + 1) .. (Len(path) - 1) : path[r].t = "num"].v
    ELSE <<>>
ParentOf(path) == ParentFrom(path, Len(path))

\* the key that is looked up
ExpandKey(searchKey, path) ==
    IF StartsWith(searchKey, PARENT_DEPENDENT_INDICATOR)
    THEN ParentOf(path) \o Substring(searchKey, Len(PARENT_DEPENDENT_INDICATOR))
    ELSE searchKey

\* result !== undefined: the search stops
\* variant: only a truthy result stops the search
Found_Truthy(result) == Truthy(result)
Found(result) == result.t # "undef"

\* the loop over the chain: entry i (1-based) is asked unless an earlier one
\* returned something other than undefined
RECURSIVE QueryChain(_, _, _, _, _)
\* what a resolver function does to the chain while it runs: "dropSelf"
\* calls unregister with the name of its own entry, "addFirst" calls
\* register("x", <its source>, 0); the other resolvers leave the chain alone
ResolverEffect(W, entry) ==
    IF entry.resolver = "dropSelf" THEN unregister(W, entry.name)
    ELSE IF entry.resolver = "addFirst"
         THEN register(W, "x", entry.source, 0, Undef)
         ELSE W
\* entry i was asked and gave result; the loop reads #repositories itself,
\* so it goes on in the chain as the resolver left it
\* variant: the loop does not see what the resolver did to the chain
Asked_Unchanged(W, i, result, splitSearchKey, cm, path) ==
    [W EXCEPT !.val = result,
              !.log = Append(@, Event("query", i - 1, W.reps[i].name,
                                      splitSearchKey, path, cm, result))]
Asked(W, i, result, splitSearchKey, cm, path) ==
    [ResolverEffect(W, W.reps[i]) EXCEPT !.val = result,
              !.log = Append(@, Event("query", i - 1, W.reps[i].name,
                                      splitSearchKey, path, cm, result))]
\* value found? => we're done
QueryNext(W, i, splitSearchKey, cm, path) ==
    IF Found(W.val) THEN W
    ELSE QueryChain(W, i + 1, splitSearchKey, cm, path)
QueryChain(W, i, splitSearchKey, cm, path) ==
    IF i > Len(W.reps) THEN W
    ELSE QueryNext(Asked(W, i, CallResolver(W.h, W.reps[i], splitSearchKey),
                         splitSearchKey, cm, path),
                   i, splitSearchKey, cm, path)

\* CM.checkCallback: false for a falsy value, an error for a non-function
\* variant: an error for every value that is not a function
checkCallbackRaises_Strict(value) == value.t # "fn"
checkCallbackRaises(value) == Truthy(value) /\ value.t # "fn"

\* the callbacks a macro can carry: "identity" returns the value it is
\* given, "const" a fixed string, "null" null, "undef" nothing
ApplyCallback(fn, result, cm, path) ==
    IF fn.v = "identity" THEN result
    ELSE IF fn.v = "const" THEN Str(<<"c", "b">>)
    ELSE IF fn.v = "null" THEN Null
    ELSE Undef

\* cm_or_any && cm_or_any.hasOwnProperty(CM.KEY_KEY)
\* variant: every object is taken for a macro
IsMacro_AnyObject(h, x) == Truthy(x) /\ IsObject(x)
IsMacro(h, x) == Truthy(x) /\ HasOwn(h, x, KEY_KEY)

\* the key is a non-empty string
\* variant: every string is taken for a key
ValidKey_AnyString(searchKey) == searchKey.t = "str"
ValidKey(searchKey) == Truthy(searchKey) /\ searchKey.t = "str"

\* the steps after the chain was asked: default, callback, mandatory
RECURSIVE getCmValue(_, _, _)
AfterCallback(W, cm, path) ==
    IF LooseUndef(W.val) /\ Truthy(PropGet(W.h, cm, MANDATORY_KEY))
    THEN Raise(W, "MandatoryValueMissing", cm)
    ELSE W

AfterDefault(W, cm, path) ==
    IF W.st # "ok" THEN W
    ELSE LET callback == PropGet(W.h, cm, CALLBACK_KEY)
         IN IF Truthy(callback)
            THEN IF checkCallbackRaises(callback)
                 THEN Raise(W, "InvalidCallback", cm)
                 ELSE AfterCallback(
                        [W EXCEPT !.val = ApplyCallback(callback, W.val, cm, path),
                                  !.log = Append(@, Event("callback", 0, "", <<>>,
                                                          path, cm, W.val))],
                        cm, path)
            ELSE AfterCallback(W, cm, path)

\* the default step: taken when the chain gave undefined or null and the
\* macro has an own $default; the default is resolved like a node of its own
\* variant: the default is returned as it is written in the macro
ResolveDefault_Literal(W, cm_or_any, path) ==
    IF LooseUndef(W.val) /\ HasOwn(W.h, cm_or_any, DEFAULT_KEY)
    THEN [W EXCEPT !.log = Append(@, Event("default", 0, "", <<>>, path,
                                           cm_or_any, W.val)),
                   !.val = PropGet(W.h, cm_or_any, DEFAULT_KEY)]
    ELSE W
ResolveDefault(W, cm_or_any, path) ==
    IF LooseUndef(W.val) /\ HasOwn(W.h, cm_or_any, DEFAULT_KEY)
    THEN getCmValue(
           [W EXCEPT !.log = Append(@, Event("default", 0, "", <<>>, path,
                                             cm_or_any, W.val))],
           PropGet(W.h, cm_or_any, DEFAULT_KEY),
           Append(path, Str(DEFAULT_PATH_MARKER)))
    ELSE W

\* the macro branch, searchKey being cm_or_any[CM.KEY_KEY]
ResolveMacro(W, searchKey, cm_or_any, path) ==
    IF ~ValidKey(searchKey)
    THEN Raise(W, "InvalidMacroKey", cm_or_any)
    ELSE AfterDefault(
           ResolveDefault(
             QueryChain(Return(W, Undef), 1, Split(ExpandKey(searchKey.v, path)),
                        cm_or_any, path),
             cm_or_any, path),
           cm_or_any, path)

getCmValue(W, cm_or_any, path) ==
    IF IsMacro(W.h, cm_or_any)
    THEN ResolveMacro(W, PropGet(W.h, cm_or_any, KEY_KEY), cm_or_any, path)
    ELSE Return(W, cm_or_any)

\* ------------------------------------------------------------------------
\* updateConfig
\* ------------------------------------------------------------------------
\* for (const key in fallback): result[key] = fallback[key] unless
\* Object.keys(result) (taken before the loop) includes key
\* variant: template entries overwrite what the node has
MissingKey_Always(rkeys, key) == TRUE
MissingKey(rkeys, key) == ~SeqIncludes(rkeys, key)

RECURSIVE CopyFallback(_, _, _, _, _, _)
CopyFallback(h, result, fallback, fkeys, rkeys, i) ==
    IF i > Len(fkeys) THEN h
    ELSE CopyFallback(
           IF MissingKey(rkeys, fkeys[i])
           THEN PropSet(h, result.v, fkeys[i], PropGet(h, fallback, fkeys[i]))
           ELSE h,
           result, fallback, fkeys, rkeys, i + 1)

\* the keys the traversal visits: the indices of an array (numbers), the own
\* property names of a mapping (strings)
TraverseKeys(h, config) ==
    IF IsArray(h, config)
    THEN [i \in 1 .. Len(h[config.v].elems) |-> Num(i - 1)]
    ELSE [i \in 1 .. Len(h[config.v].keys) |-> Str(h[config.v].keys[i])]

RECURSIVE traverseConfig(_, _, _, _)
RECURSIVE traverseEntries(_, _, _, _, _, _, _)

\* exclude && exclude.includes(indexKey)
\* variant: no key is excluded
IsExcluded_Never(exclude, indexKey) == FALSE
IsExcluded(exclude, indexKey) == SeqIncludes(exclude, indexKey)

\* an exception thrown in the loop body ends the loop and the calls around it
\* variant: the loop goes on to the next key
Aborted_Never(W) == FALSE
Aborted(W) == W.st # "ok"

\* if (result != value) config[indexKey] = result; R is the world after
\* getCmValue, R.val its result
StoreResult(R, config, indexKey, value) ==
    IF ~Aborted(R) /\ LooseNeq(R.val, value)
    THEN [R EXCEPT !.h = ElemSet(@, config.v, indexKey, R.val)]
    ELSE R

\* if (fallback): the copy of the missing template entries onto result
FillFromFallback(W, result, fallback) ==
    IF Truthy(fallback)
    THEN [W EXCEPT !.h = CopyFallback(@, result, fallback, ObjectKeys(@, fallback),
                                      ObjectKeys(@, result), 1)]
    ELSE W

\* if (result && typeof result == "object"): copy, then the recursive call
Descend(W, fallback, path, exclude) ==
    IF ~Aborted(W) /\ Truthy(W.val) /\ IsObject(W.val)
    THEN traverseConfig(FillFromFallback(W, W.val, fallback), W.val, path, exclude)
    ELSE W

\* the body of the loop for a value that is an object
VisitEntry(W, config, indexKey, value, fallback, path, exclude) ==
    Descend(StoreResult(getCmValue(W, value, path), config, indexKey, value),
            fallback, path, exclude)

\* one iteration of the loop over the keys, and the iterations after it
traverseEntries(W, config, fallback, keys, i, path, exclude) ==
    IF Aborted(W) \/ i > Len(keys) THEN W
    ELSE IF /\ Truthy(ElemGet(W.h, config, keys[i]))
            /\ IsObject(ElemGet(W.h, config, keys[i]))
            /\ keys[i] # Str(FALLBACK_KEY)
            /\ ~IsExcluded(exclude, keys[i])
         THEN traverseEntries(
                VisitEntry(W, config, keys[i], ElemGet(W.h, config, keys[i]),
                           fallback, Append(path, keys[i]), exclude),
                config, fallback, keys, i + 1, path, exclude)
         ELSE traverseEntries(W, config, fallback, keys, i + 1, path, exclude)

traverseConfig(W, config, path, exclude) ==
    traverseEntries(W, config, PropGet(W.h, config, FALLBACK_KEY),
                    TraverseKeys(W.h, config), 1, path, exclude)

\* return root, unless an error came up on the way
ReturnRoot(R, root) == IF R.st = "ok" THEN Return(R, root) ELSE R

\* updateConfig(root, exclude, initialParentKey): the root is returned
updateConfig(W, root, exclude, initialParentKey) ==
    IF Truthy(root) /\ IsObject(root)
    THEN ReturnRoot(traverseConfig(W, root,
                      IF Truthy(initialParentKey) THEN <<initialParentKey>> ELSE <<>>,
                      exclude),
                    root)
    ELSE Return(W, root)

\* ------------------------------------------------------------------------
\* Inputs: configuration trees and repository sources, written as literals
\* and loaded into the heap
\* ------------------------------------------------------------------------
TMap(entries) == [t |-> "map", v |-> entries]
TSeq(items) == [t |-> "seq", v |-> items]
S(c) == Str(<<c>>)

\* the number of objects a literal needs
RECURSIVE Size(_)
RECURSIVE SizeAll(_, _)
SizeAll(trees, i) ==
    IF i > Len(trees) THEN 0 ELSE Size(trees[i]) + SizeAll(trees, i + 1)
Children(tree) ==
    IF tree.t = "map" THEN [i \in 1 .. Len(tree.v) |-> tree.v[i][2]]
    ELSE IF tree.t = "seq" THEN tree.v
    ELSE <<>>
Size(tree) ==
    IF tree.t \in {"map", "seq"} THEN 1 + SizeAll(Children(tree), 1) ELSE 0

\* the value a literal stands for when its objects are placed after address
\* base: a primitive is itself, an object is the last address of its block
ValueAt(tree, base) ==
    IF tree.t \in {"map", "seq"} THEN Ref(base + Size(tree)) ELSE tree

\* the address before the block of child i
ChildBase(trees, base, i) == base + SizeAll(SubSeq(trees, 1, i - 1), 1)

\* the objects of a literal, children first
RECURSIVE Objects(_, _)
RECURSIVE ObjectsAll(_, _, _)
ObjectsAll(trees, base, i) ==
    IF i > Len(trees) THEN <<>>
    ELSE Objects(trees[i], ChildBase(trees, base, i)) \o ObjectsAll(trees, base, i + 1)

Objects(tree, base) ==
    LET kids == Children(tree)
        vals == [i \in 1 .. Len(kids) |-> ValueAt(kids[i], ChildBase(kids, base, i))]
    IN IF tree.t = "map"
       THEN LET keys == [i \in 1 .. Len(tree.v) |-> tree.v[i][1]]
            IN ObjectsAll(kids, base, 1) \o
               << [kind |-> "map", keys |-> keys, elems |-> <<>>,
                   val |-> [k \in {keys[i] : i \in 1 .. Len(keys)} |->
                              vals[CHOOSE i \in 1 .. Len(keys) : keys[i] = k]]] >>
       ELSE IF tree.t = "seq"
       THEN ObjectsAll(kids, base, 1) \o
            << [kind |-> "seq", keys |-> <<>>, elems |-> vals,
                val |-> [k \in {} |-> Undef]] >>
       ELSE <<>>

\* the heap extended with the objects of a literal, and the literal's value
Load(h, tree) ==
    [h |-> h \o Objects(tree, Len(h)), val |-> ValueAt(tree, Len(h))]

\* macro keys
kU == <<"U">>
kPU == <<"?", "_", "U">>
kX == <<"X">>
kY == <<"Y">>
kPX == <<"?", "_", "X">>
kZ == <<"Z">>
kBA == <<"b", "/", "a">>
kBX == <<"b", "/", "x">>
kO == <<"O">>
kQ == <<"Q">>

\* macros: { $$: key, ...options }
Macro(key, options) == TMap(<< <<KEY_KEY, Str(key)>> >> \o options)
M(key) == Macro(key, <<>>)
WithDefault(d) == <<DEFAULT_KEY, d>>
Mandatory == <<MANDATORY_KEY, Bool(TRUE)>>
WithCallback(f) == <<CALLBACK_KEY, f>>
MD(key, d) == Macro(key, <<WithDefault(d)>>)

\* repository sources
EnvSource == TMap(<< <<<<"P">>, S("p")>> >>)
Source1(z) ==
    TMap(<< <<kU, S("1")>>,
            <<<<"A", "_", "U">>, S("a")>>,
            <<<<"L", "_", "U">>, S("l")>>,
            <<<<"f", "_", "U">>, S("f")>>,
            <<<<"_", "U">>, S("n")>>,
            <<kZ, z>>,
            <<<<"b">>, TMap(<< <<<<"a">>, Num(122)>> >>)>>,
            <<kO, TMap(<< <<<<"k">>, M(kU)>>, <<<<"w">>, S("o")>> >>)>> >>)
Source2 ==
    TMap(<< <<kU, S("2")>>,
            <<kZ, S("z")>>,
            <<kY, S("y")>>,
            <<<<"B", "_", "U">>, S("b")>>,
            <<kQ, M(kU)>> >>)
CustomSource == TMap(<< <<<<"v">>, S("v")>> >>)


FalsyValues == {Num(0), Str(<<>>), Bool(FALSE)}

\* the chains the runs start from: what register() calls can build
ChainsWith(z) ==
    {<<Entry("env", "default", EnvSource), Entry("r1", "default", Source1(z)),
       Entry("r2", "default", Source2)>>,
     <<Entry("r2", "default", Source2), Entry("r1", "default", Source1(z))>>,
     <<Entry("r1", "default", Source1(z))>>,
     <<>>,
     <<Entry("n", "null", EnvSource), Entry("r1", "default", Source1(z))>>,
     <<Entry("r1", "default", Source1(z)), Entry("c", "custom", CustomSource)>>}
Chains == UNION {ChainsWith(z) : z \in FalsyValues}
TreeChains == ChainsWith(Num(0))

\* the chain with its sources loaded
ChainSources(chain) == [i \in 1 .. Len(chain) |-> chain[i].source]
LoadChain(chain) ==
    [h |-> ObjectsAll(ChainSources(chain), 0, 1),
     reps |-> [i \in 1 .. Len(chain) |->
                 [chain[i] EXCEPT !.source =
                     ValueAt(@, ChildBase(ChainSources(chain), 0, i))]]]

\* the macros placed in the trees
LeafMacroSeq ==
    << M(kU), M(kPU), M(kX), M(kZ), M(kBA), M(kBX), M(kO), M(kQ),
       M(<<"U", "/", "0">>),
       MD(kX, S("D")),
       MD(kZ, S("D")),
       MD(kX, MD(kY, S("D"))),
       MD(kX, MD(<<"W">>, S("D"))),
       MD(kX, MD(<<"W">>, MD(<<"V">>, S("D")))),
       MD(kPX, M(kPU)),
       MD(kX, Null),
       MD(kX, TMap(<< <<<<"k">>, M(kU)>> >>)),
       Macro(kX, <<Mandatory>>),
       Macro(kU, <<Mandatory>>),
       Macro(kZ, <<Mandatory>>),
       Macro(kX, <<WithDefault(S("D")), Mandatory>>),
       Macro(kX, <<WithDefault(Null), Mandatory>>),
       Macro(kU, <<WithCallback(Fn("identity"))>>),
       Macro(kX, <<WithCallback(Fn("const")), Mandatory>>),
       Macro(kU, <<WithCallback(Fn("undef")), Mandatory>>),
       Macro(kX, <<WithCallback(Fn("undef"))>>),
       Macro(kX, <<WithCallback(Fn("null")), Mandatory>>),
       Macro(kX, <<WithDefault(S("D")), WithCallback(Fn("identity")), Mandatory>>),
       Macro(kX, <<WithDefault(M(kY)), WithCallback(Fn("const")), Mandatory>>),
       Macro(kU, <<WithCallback(S("f"))>>),
       Macro(kU, <<WithCallback(Bool(FALSE))>>),
       TMap(<< <<KEY_KEY, Str(<<>>)>> >>),
       TMap(<< <<KEY_KEY, Num(123)>> >>),
       TMap(<< <<KEY_KEY, Str(<<>>)>>, WithDefault(S("D")), WithCallback(Fn("const"))>>),
       TMap(<< <<KEY_KEY, Num(123)>>, WithDefault(M(kU)), Mandatory>>),
       TMap(<< <<KEY_KEY, Null>>, WithDefault(S("D"))>>),
       TMap(<< <<KEY_KEY, Bool(TRUE)>>, WithCallback(Fn("identity"))>>) >>

\* the macros placed in the configuration trees
TreeMacros ==
    { M(kU), M(kPU), M(kX), M(kZ), M(kBA), M(kO), M(kQ),
      MD(kX, S("D")),
      MD(kX, MD(<<"W">>, S("D"))),
      MD(kPX, M(kPU)),
      MD(kX, TMap(<< <<<<"k">>, M(kU)>> >>)),
      Macro(kX, <<Mandatory>>),
      Macro(kPU, <<Mandatory>>),
      Macro(kU, <<WithCallback(Fn("identity"))>>) }

\* values that are not macros
PlainSeq ==
    << Undef, Null, S("s"), Str(<<>>), Num(0), Num(5), Bool(FALSE), Bool(TRUE),
       Fn("identity"),
       TMap(<<>>),
       TMap(<< <<<<"k">>, S("x")>>, <<DEFAULT_KEY, S("D")>>, Mandatory >>),
       TSeq(<<>>),
       TSeq(<<S("x"), M(kU)>>) >>

\* the configuration trees
Configs ==
    UNION {
      { TMap(<< <<<<"A">>, TMap(<< <<<<"f">>, m>>, <<<<"s">>, S("x")>> >>)>>,
                <<<<"B">>, TMap(<< <<<<"f">>, m>> >>)>> >>),
        TMap(<< <<<<"A">>, TMap(<< <<<<"L">>,
                    TSeq(<<m, S("h"), TSeq(<<m>>)>>)>> >>)>>,
                <<<<"g">>, m>> >>),
        TMap(<< <<<<"A">>, TMap(<< <<<<"L">>,
                    TSeq(<< TMap(<< <<<<"f">>, m>> >>) >>)>> >>)>>,
                <<<<"L">>, TSeq(<< TMap(<< <<<<"f">>, m>> >>) >>)>> >>),
        TMap(<< <<FALLBACK_KEY, TMap(<< <<<<"u">>, m>>, <<<<"p">>, S("1")>> >>)>>,
                <<<<"A">>, TMap(<<>>)>>,
                <<<<"B">>, TMap(<< <<<<"p">>, S("o")>> >>)>>,
                <<<<"s">>, S("x")>>,
                <<<<"C">>, TMap(<< <<<<"d">>, TMap(<<>>)>> >>)>> >>),
        TMap(<< <<FALLBACK_KEY, TMap(<< <<<<"n">>, TMap(<< <<<<"f">>, m>> >>)>>,
                                       <<<<"q">>, TSeq(<<m>>)>> >>)>>,
                <<<<"A">>, TMap(<<>>)>>,
                <<<<"B">>, TMap(<<>>)>> >>),
        TMap(<< <<FALLBACK_KEY, TMap(<< <<<<"u">>, m>> >>)>>,
                <<<<"L">>, TSeq(<<>>)>>,
                <<<<"A">>, TMap(<<>>)>> >>),
        TMap(<< <<FALLBACK_KEY, TMap(<< <<<<"u">>, S("t")>> >>)>>,
                <<<<"R">>, M(kO)>>,
                <<<<"A">>, TMap(<< <<<<"f">>, m>> >>)>> >>),
        TMap(<< <<<<"G">>, TMap(<<
                    <<FALLBACK_KEY, TMap(<< <<<<"u">>, m>> >>)>>,
                    <<<<"A">>, TMap(<<>>)>>,
                    <<<<"B">>, TMap(<< <<<<"u">>, S("o")>> >>)>> >>)>> >>),
        TSeq(<< TMap(<< <<<<"f">>, m>> >>), m >>),
        m,
        S("s"),
        Null } : m \in TreeMacros }

ExcludeLists == {<<>>, <<S("A")>>, <<S("u"), S("f")>>}
InitialParentKeys == {Str(<<>>), S("A")}
ResolvePaths ==
    { <<>>,
      <<S("f")>>,
      <<S("A"), S("f")>>,
      <<S("A"), S("L"), Num(0)>>,
      <<S("A"), S("L"), Num(0), Num(1)>>,
      <<S("L"), Num(0), S("f")>>,
      <<S("A"), S("L"), Num(0), S("f")>>,
      <<Num(1), S("B"), S("f")>> }

\* ------------------------------------------------------------------------
\* State
\* ------------------------------------------------------------------------
MaxCalls == 2

VARIABLES
    heap,           \* the objects: configuration tree, macros, sources
    repositories,   \* #repositories: the chain, [name, resolver, source]
    root,           \* the configuration passed to updateConfig
    pre,            \* the heap when the last call started
    op,             \* the last call
    args,           \* its arguments
    ret,            \* its outcome and the value returned
    log,            \* the resolver, default and callback calls it made
    calls           \* number of calls made

vars == <<heap, repositories, root, pre, op, args, ret, log, calls>>

NoArgs ==
    [exclude |-> <<>>, initialParentKey |-> Str(<<>>), value |-> Undef, path |-> <<>>,
     name |-> "", index |-> 0, resolver |-> Undef,
     defaultValue |-> Undef, parentKeyOrPath |-> Undef]

Start(h, reps, r) ==
    /\ heap = h
    /\ repositories = reps
    /\ root = r
    /\ pre = h
    /\ op = "none"
    /\ args = NoArgs
    /\ ret = [st |-> "ok", val |-> Undef, by |-> Undef, final |-> Undef]
    /\ log = <<>>
    /\ calls = 0

StartLoaded(L, reps) == Start(L.h, reps, L.val)
StartWith(C, tree) == StartLoaded(Load(C.h, tree), C.reps)

\* the state after a call that ended in world R
Outcome(R, name, a) ==
    /\ heap' = R.h
    /\ repositories' = R.reps
    /\ pre' = heap
    /\ op' = name
    /\ args' = a
    /\ ret' = [st |-> R.st, val |-> R.val, by |-> R.by, final |-> R.final]
    /\ log' = R.log
    /\ calls' = calls + 1
    /\ UNCHANGED root

\* a chain is registered and a configuration tree is built
Init ==
    \E chain \in TreeChains, cfg \in Configs : StartWith(LoadChain(chain), cfg)

\* updateConfig(root, exclude, initialParentKey)
UpdateConfig ==
    /\ calls < MaxCalls
    /\ \E exclude \in ExcludeLists, initialParentKey \in InitialParentKeys :
        Outcome(updateConfig(World(heap, repositories, <<>>), root, exclude,
                             initialParentKey),
                "updateConfig",
                [NoArgs EXCEPT !.exclude = exclude,
                               !.initialParentKey = initialParentKey])

Next == UpdateConfig

Spec == Init /\ [][Next]_vars

\* a chain is registered; root is the value to resolve
InitResolve ==
    \E chain \in Chains, i \in 1 .. Len(LeafMacroSeq \o PlainSeq) :
        StartWith(LoadChain(chain), (LeafMacroSeq \o PlainSeq)[i])

\* getCmValue(cm_or_any, path)
Resolve ==
    /\ calls < MaxCalls
    /\ \E path \in ResolvePaths :
        Outcome(getCmValue(World(heap, repositories, <<>>), root, path),
                "getCmValue",
                [NoArgs EXCEPT !.value = root, !.path = path])

NextResolve == Resolve

SpecResolve == InitResolve /\ [][NextResolve]_vars

TypeOK ==
    op \in {"none", "updateConfig", "getCmValue", "default", "mandatory", "callback",
            "parentDependent", "register", "unregister", "reset", "getValue",
            "getRepositoryNames"}

\* ------------------------------------------------------------------------
\* The CM class: constructor and setters
\* ------------------------------------------------------------------------
\* delete this[propertyKey]
PropDel(h, a, k) ==
    [h EXCEPT ![a].keys = SelectSeq(@, LAMBDA j : j # k),
              ![a].val = [j \in DOMAIN @ \ {k} |-> @[j]]]
\* #removeProp
removeProp(h, this, propertyKey) ==
    IF HasOwn(h, this, propertyKey) THEN PropDel(h, this.v, propertyKey) ELSE h

\* default(value)
CM_default(W, this, value) ==
    Return([W EXCEPT !.h = IF LooseUndef(value) THEN removeProp(@, this, DEFAULT_KEY)
                           ELSE PropSet(@, this.v, DEFAULT_KEY, value)],
           this)
\* mandatory(value)
CM_mandatory(W, this, value) ==
    Return([W EXCEPT !.h = IF ~Truthy(value) THEN removeProp(@, this, MANDATORY_KEY)
                           ELSE PropSet(@, this.v, MANDATORY_KEY, Bool(TRUE))],
           this)
\* callback(value): checkCallback throws for a truthy non-function, is true
\* for a function and false for a falsy value
CM_callback(W, this, value) ==
    IF checkCallbackRaises(value) THEN Raise(W, "InvalidCallback", this)
    ELSE Return([W EXCEPT !.h = IF Truthy(value)
                                THEN PropSet(@, this.v, CALLBACK_KEY, value)
                                ELSE removeProp(@, this, CALLBACK_KEY)],
                this)
\* parentDependent(value): the marker is put in front of the key or taken
\* off it; the method has no return statement
CM_parentDependent(W, this, value) ==
    Return([W EXCEPT !.h =
               IF Truthy(value) /\ ~StartsWith(PropGet(@, this, KEY_KEY).v,
                                               PARENT_DEPENDENT_INDICATOR)
               THEN PropSet(@, this.v, KEY_KEY,
                            Str(PARENT_DEPENDENT_INDICATOR \o PropGet(@, this, KEY_KEY).v))
               ELSE IF ~Truthy(value) /\ StartsWith(PropGet(@, this, KEY_KEY).v,
                                                    PARENT_DEPENDENT_INDICATOR)
               THEN PropSet(@, this.v, KEY_KEY,
                            Str(Substring(PropGet(@, this, KEY_KEY).v,
                                          Len(PARENT_DEPENDENT_INDICATOR))))
               ELSE @],
           Undef)

\* the entries of an object literal, entry k set to w
LiteralSet(entries, k, w) ==
    IF \E i \in 1 .. Len(entries) : entries[i][1] = k
    THEN [i \in 1 .. Len(entries) |->
             IF entries[i][1] = k THEN <<k, w>> ELSE entries[i]]
    ELSE Append(entries, <<k, w>>)
LiteralHasKey(key) ==
    /\ key.t = "map"
    /\ \E i \in 1 .. Len(key.v) : key.v[i][1] = KEY_KEY /\ Truthy(key.v[i][2])
\* _default !== undefined: this[CM.DEFAULT_KEY] = _default
ConstructDefault(built, _default) ==
    IF built.st = "ok" /\ _default # Undef
    THEN [built EXCEPT !.tree = TMap(LiteralSet(@.v, DEFAULT_KEY, _default))]
    ELSE built
\* new CM(key, _default): the object built, or the error
Construct(key, _default) ==
    ConstructDefault(
      IF LiteralHasKey(key) THEN [st |-> "ok", tree |-> TMap(key.v)]
      ELSE IF key.t = "map" \/ ~Truthy(key) \/ key.t # "str"
           THEN [st |-> "InvalidMacroKey", tree |-> Undef]
           ELSE [st |-> "ok", tree |-> TMap(<< <<KEY_KEY, key>> >>)],
      _default)

\* what the constructor is given
ConstructorKeys ==
    { Str(kU), Str(kPU), Str(kX), Str(<<>>), Num(123), Str(PARENT_DEPENDENT_INDICATOR),
      Macro(kX, <<WithCallback(S("f"))>>),
      Macro(kX, <<WithCallback(Num(0)), Mandatory>>),
      TMap(<< <<<<"k">>, S("x")>> >>) }
ConstructorDefaults == {Undef, S("D")}
BuilderChains ==
    { <<Entry("r1", "default", Source1(Num(0)))>>,
      <<Entry("n", "null", EnvSource), Entry("r1", "default", Source1(Num(0)))>> }
\* what the setters are given
DefaultArgs == {Undef, Null, S("D"), Num(0)}
MandatoryArgs == {Bool(TRUE), Bool(FALSE), Undef}
CallbackArgs == {Fn("const"), Fn("identity"), S("f"), Num(7), Bool(FALSE), Undef, Str(<<>>)}
ParentDependentArgs == {Bool(TRUE), Bool(FALSE)}
BuilderPaths == {<<>>, <<S("A"), S("f")>>}

\* the state after new CM(key, _default) on a registered chain
StartBuilt(C, built) ==
    /\ heap = IF built.st = "ok" THEN Load(C.h, built.tree).h ELSE C.h
    /\ repositories = C.reps
    /\ root = IF built.st = "ok" THEN Load(C.h, built.tree).val ELSE Undef
    /\ pre = C.h
    /\ op = "none"
    /\ args = NoArgs
    /\ ret = [st |-> built.st, val |-> Undef, by |-> Undef, final |-> Undef]
    /\ log = <<>>
    /\ calls = 0
InitCM ==
    \E chain \in BuilderChains, key \in ConstructorKeys, d \in ConstructorDefaults :
        StartBuilt(LoadChain(chain), Construct(key, d))

Built == root.t = "ref" /\ calls < MaxCalls
SetDefault ==
    /\ Built
    /\ \E value \in DefaultArgs :
          Outcome(CM_default(World(heap, repositories, <<>>), root, value),
                  "default", [NoArgs EXCEPT !.value = value])
SetMandatory ==
    /\ Built
    /\ \E value \in MandatoryArgs :
          Outcome(CM_mandatory(World(heap, repositories, <<>>), root, value),
                  "mandatory", [NoArgs EXCEPT !.value = value])
SetCallback ==
    /\ Built
    /\ \E value \in CallbackArgs :
          Outcome(CM_callback(World(heap, repositories, <<>>), root, value),
                  "callback", [NoArgs EXCEPT !.value = value])
SetParentDependent ==
    /\ Built
    /\ \E value \in ParentDependentArgs :
          Outcome(CM_parentDependent(World(heap, repositories, <<>>), root, value),
                  "parentDependent", [NoArgs EXCEPT !.value = value])
ResolveBuilt ==
    /\ Built
    /\ \E path \in BuilderPaths :
          Outcome(getCmValue(World(heap, repositories, <<>>), root, path),
                  "getCmValue", [NoArgs EXCEPT !.value = root, !.path = path])
NextCM ==
    \/ SetDefault
    \/ SetMandatory
    \/ SetCallback
    \/ SetParentDependent
    \/ ResolveBuilt
SpecCM == InitCM /\ [][NextCM]_vars

\* ------------------------------------------------------------------------
\* Properties of getCmValue (SpecResolve)
\* ------------------------------------------------------------------------
\* the last call resolved a macro with a usable key
TopMacro ==
    /\ op = "getCmValue"
    /\ args.value.t = "ref"
    /\ pre[args.value.v].kind = "map"
    /\ KEY_KEY \in DOMAIN pre[args.value.v].val
    /\ pre[args.value.v].val[KEY_KEY].t = "str"
    /\ pre[args.value.v].val[KEY_KEY].v # <<>>
TopField(k) == PropGet(pre, args.value, k)
TopHas(k) == k \in DOMAIN pre[args.value.v].val
\* the segments of the key that is looked up for it
TopSplit == Split(ExpandKey(TopField(KEY_KEY).v, args.path))
\* the calls made for the macro itself (not for its default)
TopEvents(ev) ==
    {i \in 1 .. Len(log) :
        log[i].ev = ev /\ log[i].cm = args.value /\ log[i].path = args.path}
\* what chain entry i answers for the key
Answer(i) == CallResolver(pre, repositories[i], TopSplit)
AllAbsent == \A i \in 1 .. Len(repositories) : Answer(i) = Undef
FirstPresent ==
    CHOOSE i \in 1 .. Len(repositories) :
        Answer(i) # Undef /\ \A j \in 1 .. (i - 1) : Answer(j) = Undef

\* C2: resolve returns the value of the lowest-index chain entry whose
\* resolver returns a non-absent value, and no entry with a higher index is
\* asked (stated for a macro without callback, which would transform the
\* value).
C2_FirstNonAbsentWins ==
    (TopMacro /\ ~Truthy(TopField(CALLBACK_KEY)) /\ ~AllAbsent) =>
        /\ ret.st = "ok"
        /\ ret.val = Answer(FirstPresent)
        /\ \A e \in TopEvents("query") : log[e].idx + 1 <= FirstPresent

\* C3: a source reached through the default resolver that defines the key
\* with 0, "" or false gives exactly that value: the default is not taken,
\* no later entry is asked, and the mandatory check does not raise.
FalsyAt(i) ==
    /\ repositories[i].resolver = "default"
    /\ Len(TopSplit) = 1
    /\ PropGet(pre, repositories[i].source, TopSplit[1]) \in FalsyValues
    /\ \A j \in 1 .. (i - 1) : Answer(j) = Undef
C3_FalsyIsFound ==
    TopMacro =>
        \A i \in 1 .. Len(repositories) :
            FalsyAt(i) =>
                /\ TopEvents("default") = {}
                /\ \A e \in TopEvents("query") : log[e].idx + 1 <= i
                /\ ~Truthy(TopField(CALLBACK_KEY)) =>
                      /\ ret.st = "ok"
                      /\ ret.val = PropGet(pre, repositories[i].source, TopSplit[1])
C3_Witness ==
    /\ TopMacro
    /\ \E i \in 1 .. (Len(repositories) - 1) : FalsyAt(i)
    /\ TopHas(DEFAULT_KEY) \/ Truthy(TopField(MANDATORY_KEY))
    /\ ret.st = "ok"
    /\ ret.val \in FalsyValues

\* the literal a chain of defaults ends in, and whether every key on the
\* way is missing in every chain entry
RECURSIVE DefaultEnd(_)
DefaultEnd(x) ==
    IF x.t = "ref" /\ KEY_KEY \in DOMAIN pre[x.v].val
    THEN IF DEFAULT_KEY \in DOMAIN pre[x.v].val
         THEN DefaultEnd(pre[x.v].val[DEFAULT_KEY])
         ELSE Undef
    ELSE x
RECURSIVE PlainMissingChain(_)
PlainMissingChain(x) ==
    IF x.t = "ref" /\ KEY_KEY \in DOMAIN pre[x.v].val
    THEN /\ DOMAIN pre[x.v].val = {KEY_KEY, DEFAULT_KEY}
         /\ pre[x.v].val[KEY_KEY].t = "str"
         /\ pre[x.v].val[KEY_KEY].v # <<>>
         /\ pre[x.v].val[KEY_KEY].v[1] # "?"
         /\ \A i \in 1 .. Len(repositories) :
               CallResolver(pre, repositories[i], Split(pre[x.v].val[KEY_KEY].v)) = Undef
         /\ PlainMissingChain(pre[x.v].val[DEFAULT_KEY])
    ELSE x.t = "str"

\* C4: the default of a macro is evaluated if and only if every chain entry
\* returned absent for its key; a chain of nested defaults whose keys are
\* all missing resolves to the literal it ends in.
C4_DefaultIffAllAbsent ==
    (TopMacro /\ TopHas(DEFAULT_KEY)) =>
        /\ (TopEvents("default") # {}) <=> AllAbsent
        /\ PlainMissingChain(args.value) =>
              (ret.st = "ok" /\ ret.val = DefaultEnd(args.value))

\* C5: the mandatory error is raised exactly when the flag of the macro is
\* set and its result after lookup, default and callback is absent: never
\* for a present result, and a mandatory macro never returns absent.
C5_MandatoryExactly ==
    op = "getCmValue" =>
        /\ ret.st = "MandatoryValueMissing" =>
              (Truthy(PropGet(pre, ret.by, MANDATORY_KEY)) /\ ret.final = Undef)
        /\ (TopMacro /\ Truthy(TopField(MANDATORY_KEY)) /\ ret.st = "ok") =>
              ret.val # Undef

\* C6: a value that is not a macro node (a scalar, absent, a sequence, a
\* mapping without the key field) is returned as it is; no resolver and no
\* callback is called, nothing is raised, nothing changes.
NotMacroNode(h, x) ==
    \/ x.t # "ref"
    \/ h[x.v].kind = "seq"
    \/ KEY_KEY \notin DOMAIN h[x.v].val
C6_PassThrough ==
    (op = "getCmValue" /\ NotMacroNode(pre, args.value)) =>
        /\ ret.st = "ok"
        /\ ret.val = args.value
        /\ log = <<>>
        /\ heap = pre
C6_Witness ==
    /\ op = "getCmValue"
    /\ args.value.t = "ref"
    /\ pre[args.value.v].kind = "map"
    /\ DOMAIN pre[args.value.v].val = {<<"k">>, DEFAULT_KEY, MANDATORY_KEY}
    /\ ret.val = args.value
    /\ args.path # <<>>

\* ------------------------------------------------------------------------
\* Properties of updateConfig (Spec)
\* ------------------------------------------------------------------------
Updated == op = "updateConfig"
Returned == Updated /\ ret.st = "ok"
Excluded(k) == \E i \in 1 .. Len(args.exclude) : args.exclude[i] = Str(k)

\* the objects that object a refers to: through every property (all), or
\* through the properties that are neither excluded nor the template key
Kids(h, a, all) ==
    {h[a].val[k].v : k \in {j \in DOMAIN h[a].val :
                               /\ h[a].val[j].t = "ref"
                               /\ all \/ (j # FALLBACK_KEY /\ ~Excluded(j))}}
    \cup {h[a].elems[i].v : i \in {j \in 1 .. Len(h[a].elems) : h[a].elems[j].t = "ref"}}
RECURSIVE ReachSet(_, _, _, _)
ReachSet(h, frontier, seen, all) ==
    IF frontier \subseteq seen THEN seen
    ELSE ReachSet(h, UNION {Kids(h, a, all) : a \in frontier} \ (seen \cup frontier),
                  seen \cup frontier, all)
\* the objects below object a (through at least one property)
Below(h, a, all) == ReachSet(h, Kids(h, a, all), {}, all)

MacroNode(h, a) == h[a].kind = "map" /\ KEY_KEY \in DOMAIN h[a].val
\* no resolver returned a macro-shaped mapping
PlainRepositoryValues ==
    \A i \in 1 .. Len(log) :
        (log[i].ev = "query" /\ log[i].res.t = "ref") => ~MacroNode(pre, log[i].res.v)

\* C1: after updateConfig(root) has returned, it returned the same root, and
\* no node reachable from root through keys that are neither excluded nor
\* the template key is still a macro node; a root that is not an object is
\* returned untouched.  (Repository values are not macro-shaped.)
C1_AllMacrosResolved ==
    (Returned /\ PlainRepositoryValues) =>
        /\ ret.val = root
        /\ root.t = "ref" => \A a \in Below(heap, root.v, FALSE) : ~MacroNode(heap, a)
        /\ root.t # "ref" => heap = pre

\* the raw key of the macro an event is about, and the parent-dependent
\* lookups made for nodes of the tree (not for defaults)
RawKey(e) == PropGet(pre, log[e].cm, KEY_KEY).v
IsMarker(x) == x = Str(DEFAULT_PATH_MARKER)
ParentDependentLookups ==
    {e \in 1 .. Len(log) :
        /\ log[e].ev = "query"
        /\ RawKey(e)[1] = "?"
        /\ \A i \in 1 .. Len(log[e].path) : ~IsMarker(log[e].path[i])}
LookedUpAs(e, parent) == log[e].key = Split(parent \o Tail(RawKey(e)))
\* the position of the last entry of a path that is not an index
LastName(path) ==
    IF \E q \in 1 .. Len(path) : path[q].t = "str"
    THEN CHOOSE q \in 1 .. Len(path) :
             path[q].t = "str" /\ \A r \in (q + 1) .. Len(path) : path[r].t = "num"
    ELSE 0

\* C7: a macro "?rest" that is a property of the mapping under key P is
\* looked up as P + rest; so is a macro that is an element of a sequence (at
\* any nesting depth) stored in a property of that mapping; with
\* initialParentKey, properties of the root use it as P.
C7_ParentOfPropertyAndElement ==
    Updated =>
        \A e \in ParentDependentLookups :
            LET path == log[e].path
                n == Len(path)
                q == LastName(path)
            IN /\ (n >= 2 /\ q = n /\ path[n - 1].t = "str") =>
                      LookedUpAs(e, path[n - 1].v)
               /\ (q >= 2 /\ q < n /\ path[q - 1].t = "str") =>
                      LookedUpAs(e, path[q - 1].v)
C7_Witness ==
    /\ Updated
    /\ args.initialParentKey = S("A")
    /\ \E e \in ParentDependentLookups :
          log[e].path = <<S("A"), S("g")>> /\ log[e].res = S("a")
    /\ \E e \in ParentDependentLookups :
          log[e].path = <<S("A"), S("A"), S("L"), Num(0)>> /\ log[e].res = S("a")
    /\ \E e \in ParentDependentLookups :
          log[e].path = <<S("A"), S("A"), S("L"), Num(2), Num(0)>> /\ log[e].res = S("a")

\* C8: for a macro "?rest" that is a property of a mapping which is an
\* element of a sequence stored under key L (path [..., L, i, field]) the
\* marker is replaced by L.
C8_ParentAcrossSequence ==
    Updated =>
        \A e \in ParentDependentLookups :
            LET path == log[e].path
                n == Len(path)
            IN (/\ n >= 3
                /\ n >= 4 \/ args.initialParentKey = Str(<<>>)
                /\ path[n].t = "str" /\ path[n - 1].t = "num"
                /\ path[n - 2].t = "str") =>
                   LookedUpAs(e, path[n - 2].v)

\* the mappings that updateConfig visited and that carry a template, with
\* the template as it was before the call
IsMap(h, x) == x.t = "ref" /\ h[x.v].kind = "map"
Visited == IF root.t = "ref" THEN {root.v} \cup Below(heap, root.v, FALSE) ELSE {}
TemplateOf(c) == PropGet(pre, Ref(c), FALLBACK_KEY)
WithTemplate(cs) ==
    {c \in cs : pre[c].kind = "map" /\ IsMap(pre, TemplateOf(c))}
TemplateKeys(c) == DOMAIN pre[TemplateOf(c).v].val
Siblings(c) == DOMAIN heap[c].val \ {FALLBACK_KEY}

\* every template key is a key of the resolved value of sibling k of c
Filled(c, k) ==
    IsMap(heap, heap[c].val[k]) => TemplateKeys(c) \subseteq DOMAIN heap[heap[c].val[k].v].val
\* what the sibling's value had itself is still what it has
OwnKept(c, k) ==
    LET d == heap[c].val[k].v
    IN IsMap(heap, heap[c].val[k]) =>
           \A j \in TemplateKeys(c) \cap DOMAIN pre[d].val :
               (pre[d].val[j].t # "ref" \/ ~MacroNode(pre, pre[d].val[j].v)) =>
                   heap[d].val[j] = pre[d].val[j]
\* a scalar sibling stays what it was; an object gains keys only as the
\* resolved value of a direct sibling of a template, and only template keys
ScalarKept(c, k) ==
    (k \in DOMAIN pre[c].val /\ pre[c].val[k].t # "ref") => heap[c].val[k] = pre[c].val[k]
OnlySiblingsGain ==
    \A o \in 1 .. Len(heap) :
        \A j \in DOMAIN heap[o].val \ DOMAIN pre[o].val :
            \E c \in WithTemplate(Visited) :
                /\ j \in TemplateKeys(c)
                /\ \E k \in Siblings(c) : heap[c].val[k] = Ref(o)

\* C9 as stated: after updateConfig every direct sibling of a template
\* whose resolved value is a mapping has every template key, keeps the
\* values of the keys it had itself, and nothing else receives template
\* entries.
C9_CopyDownEverySibling ==
    Returned =>
        /\ \A c \in WithTemplate(Visited) : \A k \in Siblings(c) :
               Filled(c, k) /\ OwnKept(c, k) /\ ScalarKept(c, k)
        /\ OnlySiblingsGain
\* C9 amended: the same for the direct siblings that are not listed in
\* excludedKeys.
C9_CopyDownNonExcluded ==
    Returned =>
        /\ \A c \in WithTemplate(Visited) : \A k \in Siblings(c) :
               /\ ~Excluded(k) => Filled(c, k)
               /\ OwnKept(c, k) /\ ScalarKept(c, k)
        /\ OnlySiblingsGain
C9_Witness ==
    /\ Returned /\ calls = 1 /\ args.exclude = <<>> /\ root.t = "ref"
    /\ \E c \in WithTemplate(Visited) :
          /\ c # root.v
          /\ {<<"A">>, <<"B">>} \subseteq Siblings(c)
          /\ DOMAIN pre[heap[c].val[<<"A">>].v].val = {}
          /\ heap[heap[c].val[<<"A">>].v].val[<<"u">>] = S("1")
          /\ heap[heap[c].val[<<"B">>].v].val[<<"u">>] = S("o")

\* C10: updateConfig leaves the template itself as it was: macros inside it
\* are still macros afterwards, whatever it contains is unchanged.
C10_TemplateUnchanged ==
    Returned =>
        \A c \in WithTemplate(Visited) :
            \A a \in {TemplateOf(c).v} \cup Below(pre, TemplateOf(c).v, TRUE) :
                heap[a] = pre[a]

\* a path ends with the entries suf
EndsWith(path, suf) ==
    /\ Len(path) >= Len(suf)
    /\ \A i \in 1 .. Len(suf) : path[Len(path) - Len(suf) + i] = suf[i]
ParentDependentMacro(h, x) ==
    /\ x.t = "ref" /\ MacroNode(h, x.v)
    /\ h[x.v].val[KEY_KEY].t = "str"
    /\ h[x.v].val[KEY_KEY].v # <<>>
    /\ h[x.v].val[KEY_KEY].v[1] = "?"
\* macro x was looked up at a path ending in suf, with parent name k
LookedUpAt(x, suf, k) ==
    \E e \in ParentDependentLookups :
        log[e].cm = x /\ EndsWith(log[e].path, suf) /\ LookedUpAs(e, k)
\* the siblings k of the template of c that inherit the template entry j
Inherits(c, k, j) ==
    /\ ~Excluded(k) /\ ~Excluded(j)
    /\ IsMap(heap, heap[c].val[k])
    /\ j \in TemplateKeys(c) \ DOMAIN pre[heap[c].val[k].v].val
TemplateEntry(c, j) == pre[TemplateOf(c).v].val[j]
InheritedDirectly(c, k, j) ==
    ParentDependentMacro(pre, TemplateEntry(c, j)) =>
        LookedUpAt(TemplateEntry(c, j), <<Str(k), Str(j)>>, k)
InheritedInSequence(c, k, j) ==
    (TemplateEntry(c, j).t = "ref" /\ pre[TemplateEntry(c, j).v].kind = "seq") =>
        \A i \in 1 .. Len(pre[TemplateEntry(c, j).v].elems) :
            ParentDependentMacro(pre, pre[TemplateEntry(c, j).v].elems[i]) =>
                LookedUpAt(pre[TemplateEntry(c, j).v].elems[i],
                           <<Str(k), Str(j), Num(i - 1)>>, k)

\* C11: a parent-dependent macro inherited from a template, as a direct
\* entry of the template or inside a sequence that is an entry of it, is
\* looked up once for every inheriting sibling k, at k's own path and with
\* k as the parent name.
C11_InheritedPerSibling ==
    (Returned /\ calls = 1 /\ repositories # <<>>) =>
        \A c \in WithTemplate(Visited) : \A k \in Siblings(c) :
            \A j \in TemplateKeys(c) :
                Inherits(c, k, j) =>
                    InheritedDirectly(c, k, j) /\ InheritedInSequence(c, k, j)

\* ------------------------------------------------------------------------
\* Callback and key validation (SpecResolve)
\* ------------------------------------------------------------------------
\* the macro that was resolved carries a function as callback, and no
\* error came up in the resolution of its default
CallbackReached ==
    /\ TopMacro
    /\ TopField(CALLBACK_KEY).t = "fn"
    /\ ret.st = "ok" \/ ret.by = args.value
\* the result of lookup and default, when the default is a literal
BeforeCallback ==
    IF TopEvents("default") # {} THEN TopField(DEFAULT_KEY)
    ELSE IF TopEvents("query") = {} THEN Undef
    ELSE log[CHOOSE e \in TopEvents("query") :
                 \A f \in TopEvents("query") : f <= e].res
CallbackResult(c) == ApplyCallback(TopField(CALLBACK_KEY), log[c].res, log[c].cm, log[c].path)

\* C12: a declared callback is invoked exactly once, after lookup and
\* default and before the mandatory check, with (result, macro, path); what
\* it returns is the result; it is invoked for an absent result too, and a
\* present return value for an absent result prevents the mandatory error.
C12_CallbackOnce ==
    CallbackReached =>
        /\ Cardinality(TopEvents("callback")) = 1
        /\ \A c \in TopEvents("callback") :
              /\ c = Len(log)
              /\ TopField(DEFAULT_KEY).t # "ref" => log[c].res = BeforeCallback
              /\ ret.st = "ok" => ret.val = CallbackResult(c)
              /\ ret.st # "ok" => ret.final = CallbackResult(c)
              /\ (log[c].res = Undef /\ CallbackResult(c) # Undef) => ret.st = "ok"

\* ------------------------------------------------------------------------
\* Callback values that are not functions (SpecCM)
\* ------------------------------------------------------------------------
\* a macro with a usable key and an own callback field that holds no
\* function was resolved, and its default raised nothing
ResolvedWithNonFunction ==
    /\ TopMacro
    /\ TopHas(CALLBACK_KEY)
    /\ TopField(CALLBACK_KEY).t # "fn"
    /\ ret.st = "ok" \/ ret.by = args.value
\* the callback setter was given a value that is no function
SetterGivenNonFunction ==
    op = "callback" /\ args.value.t \notin {"fn", "undef"}
RaisedInvalidCallback == ret.st = "InvalidCallback" /\ ret.val = Undef

\* C13 as stated: a callback field that is present and holds a non-function
\* makes resolve raise the invalid-callback error without returning a
\* value, and so does the callback setter given a non-function.
C13_NonFunctionRaises ==
    /\ ResolvedWithNonFunction => RaisedInvalidCallback
    /\ SetterGivenNonFunction => (RaisedInvalidCallback /\ heap = pre)
\* C13 amended: this holds for truthy non-functions; a falsy value (false,
\* 0, "", null) counts as no callback: resolve ignores the field and the
\* setter removes it, neither raises.
C13_TruthyNonFunctionRaises ==
    /\ ResolvedWithNonFunction =>
          IF Truthy(TopField(CALLBACK_KEY)) THEN RaisedInvalidCallback
          ELSE ret.st # "InvalidCallback" /\ TopEvents("callback") = {}
    /\ SetterGivenNonFunction =>
          IF Truthy(args.value) THEN RaisedInvalidCallback /\ heap = pre
          ELSE /\ ret.st = "ok"
               /\ ret.val = root
               /\ ~HasOwn(heap, root, CALLBACK_KEY)
C13_Witness ==
    /\ ResolvedWithNonFunction
    /\ TopField(CALLBACK_KEY) = S("f")
    /\ TopHas(MANDATORY_KEY)
    /\ calls = 2
    /\ RaisedInvalidCallback

\* ------------------------------------------------------------------------
\* Key validation (SpecResolve)
\* ------------------------------------------------------------------------
\* the value resolved is a mapping with an own key field whose value is
\* empty or not a string
ResolvedInvalidKey ==
    /\ op = "getCmValue"
    /\ args.value.t = "ref"
    /\ MacroNode(pre, args.value.v)
    /\ \/ TopField(KEY_KEY).t # "str"
       \/ TopField(KEY_KEY).v = <<>>

\* C14: resolve of a mapping whose key field is empty or not a string
\* raises the invalid-key error before any resolver, default or callback
\* is evaluated.
C14_InvalidKeyFirst ==
    ResolvedInvalidKey =>
        /\ ret.st = "InvalidMacroKey"
        /\ ret.by = args.value
        /\ ret.val = Undef
        /\ log = <<>>
        /\ heap = pre
C14_Witness ==
    /\ ResolvedInvalidKey
    /\ TopField(KEY_KEY) = Str(<<>>)
    /\ TopHas(DEFAULT_KEY) /\ TopField(CALLBACK_KEY).t = "fn"
    /\ repositories # <<>>
    /\ ret.st = "InvalidMacroKey"

\* ------------------------------------------------------------------------
\* Found versus absent (SpecResolve)
\* ------------------------------------------------------------------------
\* C15: a resolver result that stops the search (anything but undefined,
\* null included) is the found result at every later step: the default of
\* the macro is not taken instead of it and the mandatory check does not
\* reject it.
C15_FoundIsFoundEverywhere ==
    TopMacro =>
        \A e \in TopEvents("query") :
            Found(log[e].res) =>
                /\ TopEvents("default") = {}
                /\ ~(ret.st = "MandatoryValueMissing" /\ ret.final = log[e].res)
                /\ ~Truthy(TopField(CALLBACK_KEY)) =>
                      (ret.st = "ok" /\ ret.val = log[e].res)

\* ------------------------------------------------------------------------
\* Excluded keys (Spec)
\* ------------------------------------------------------------------------
\* the objects of the tree as it was before the call
TreeBefore == IF root.t = "ref" THEN {root.v} \cup Below(pre, root.v, TRUE) ELSE {}
ExcludedProperties(o) == {k \in DOMAIN pre[o].val : Excluded(k)}
\* the objects below property k of o that no other way leads to
OnlyBelow(o, k) ==
    IF pre[o].val[k].t = "ref"
    THEN ({pre[o].val[k].v} \cup Below(pre, pre[o].val[k].v, TRUE)) \ Visited
    ELSE {}

\* C16: a property whose key is in excludedKeys is left as it was, at every
\* depth: its value is not replaced, it receives no template entries and
\* nothing below it changes; its siblings that are not excluded are
\* resolved.
C16_ExcludedUntouched ==
    Updated =>
        \A o \in TreeBefore : \A k \in ExcludedProperties(o) :
            /\ k \in DOMAIN heap[o].val
            /\ heap[o].val[k] = pre[o].val[k]
            /\ \A a \in OnlyBelow(o, k) : heap[a] = pre[a]
            /\ (Returned /\ PlainRepositoryValues /\ o \in Visited /\ pre[o].kind = "map") =>
                  \A j \in DOMAIN heap[o].val \ {FALLBACK_KEY} :
                      (~Excluded(j) /\ heap[o].val[j].t = "ref") =>
                          ~MacroNode(heap, heap[o].val[j].v)
C16_Witness ==
    /\ Returned /\ calls = 1
    /\ args.exclude = <<S("A")>>
    /\ root.t = "ref"
    /\ {<<"A">>, <<"B">>} \subseteq DOMAIN pre[root.v].val
    /\ ParentDependentMacro(heap, PropGet(heap, PropGet(heap, root, <<"A">>), <<"f">>))
    /\ PropGet(heap, PropGet(heap, root, <<"B">>), <<"f">>) = S("b")

\* ------------------------------------------------------------------------
\* A second updateConfig (Spec)
\* ------------------------------------------------------------------------
\* the step from a successful updateConfig to a call with the same arguments
SecondCall ==
    /\ calls = 1 /\ op = "updateConfig" /\ ret.st = "ok"
    /\ calls' = 2 /\ op' = "updateConfig" /\ args' = args
\* no macro of the tree or of a source had a callback
NoCallbacks ==
    \A a \in 1 .. Len(pre) :
        pre[a].kind = "map" => CALLBACK_KEY \notin DOMAIN pre[a].val
TreeNow == IF root.t = "ref" THEN {root.v} \cup Below(heap, root.v, TRUE) ELSE {}

\* C17: with an unchanged chain and macros without callbacks, after a
\* successful updateConfig(root) a second updateConfig(root) with the same
\* arguments changes nothing in the tree.
C17_SecondCallChangesNothing ==
    [][(SecondCall /\ NoCallbacks) => \A a \in TreeNow : heap'[a] = heap[a]]_vars
\* C17, for sources that hold no macro-shaped mappings: the second call
\* changes nothing in the tree.
C17_SecondCallPlainSources ==
    [][(SecondCall /\ NoCallbacks /\ PlainRepositoryValues)
          => \A a \in TreeNow : heap'[a] = heap[a]]_vars
\* a second call has returned and found B.f already resolved
C17_Witness ==
    /\ calls = 2 /\ op = "updateConfig" /\ ret.st = "ok"
    /\ NoCallbacks /\ PlainRepositoryValues
    /\ args.exclude = <<>>
    /\ root.t = "ref" /\ <<"B">> \in DOMAIN pre[root.v].val
    /\ PropGet(pre, PropGet(pre, root, <<"B">>), <<"f">>) = S("b")
    /\ \A a \in TreeNow : heap[a] = pre[a]

\* ------------------------------------------------------------------------
\* An error during updateConfig (Spec)
\* ------------------------------------------------------------------------
Failed == Updated /\ ret.st # "ok"
\* the keys of object x the traversal goes through, in its order
WalkKeys(h, x) ==
    SelectSeq(TraverseKeys(h, x),
              LAMBDA k : k # Str(FALLBACK_KEY) /\ ~SeqIncludes(args.exclude, k))
\* the paths from x to the nodes below it
RECURSIVE PathsFrom(_, _)
PathsFrom(h, x) ==
    IF IsObject(x) /\ x.t = "ref"
    THEN UNION {{<<WalkKeys(h, x)[i]>> \o q :
                    q \in {<<>>} \cup PathsFrom(h, ElemGet(h, x, WalkKeys(h, x)[i]))}
                : i \in 1 .. Len(WalkKeys(h, x))}
    ELSE {}
RECURSIVE NodeAt(_, _, _)
NodeAt(h, x, p) == IF p = <<>> THEN x ELSE NodeAt(h, ElemGet(h, x, p[1]), Tail(p))
\* x is the macro that raised, or a macro whose default chain leads to it
RECURSIVE RaisedIn(_, _)
RaisedIn(h, x) ==
    /\ x.t = "ref" /\ MacroNode(h, x.v)
    /\ \/ x = ret.by
       \/ HasOwn(h, x, DEFAULT_KEY) /\ RaisedIn(h, PropGet(h, x, DEFAULT_KEY))
\* the paths of the node whose resolution raised
FailPaths == {p \in PathsFrom(heap, root) : RaisedIn(heap, NodeAt(heap, root, p))}
\* the object that holds step i of path p, and its keys before and after
Holder(p, i) == NodeAt(heap, root, SubSeq(p, 1, i - 1))
PlaceOf(keys, k) == CHOOSE n \in 1 .. Len(keys) : keys[n] = k
KeysBefore(p, i) ==
    {WalkKeys(heap, Holder(p, i))[j] :
        j \in {n \in 1 .. Len(WalkKeys(heap, Holder(p, i))) :
                  n < PlaceOf(WalkKeys(heap, Holder(p, i)), p[i])}}
KeysAfter(p, i) ==
    {WalkKeys(heap, Holder(p, i))[j] :
        j \in {n \in 1 .. Len(WalkKeys(heap, Holder(p, i))) :
                  n > PlaceOf(WalkKeys(heap, Holder(p, i)), p[i])}}
ObjectsAt(h, x) == IF x.t = "ref" THEN {x.v} \cup Below(h, x.v, TRUE) ELSE {}
\* the objects the traversal had gone through when it raised at p
SeenBefore(p) ==
    UNION {{Holder(p, i).v} \cup
           ObjectsAt(heap, PropGet(heap, Holder(p, i), FALLBACK_KEY)) \cup
           UNION {ObjectsAt(heap, ElemGet(heap, Holder(p, i), k)) : k \in KeysBefore(p, i)}
           : i \in 1 .. Len(p)}
\* the value a node had before the call, or the template entry copied there
AsBefore(o, k, x) ==
    IF k.t = "str" /\ pre[o.v].kind = "map" /\ k.v \notin DOMAIN pre[o.v].val
    THEN \E c \in 1 .. Len(pre) :
            /\ IsMap(pre, TemplateOf(c))
            /\ k.v \in TemplateKeys(c)
            /\ x = pre[TemplateOf(c).v].val[k.v]
    ELSE x = ElemGet(pre, o, k)
\* the nodes after p are as they were
LaterUntouched(p) ==
    \A i \in 1 .. Len(p) : \A k \in KeysAfter(p, i) :
        /\ AsBefore(Holder(p, i), k, ElemGet(heap, Holder(p, i), k))
        /\ \A a \in ObjectsAt(heap, ElemGet(heap, Holder(p, i), k)) \ SeenBefore(p) :
              heap[a] = pre[a]
\* the nodes before p keep their resolved values and their template entries
EarlierKept(p) ==
    \A i \in 1 .. Len(p) : \A k \in KeysBefore(p, i) :
        /\ PlainRepositoryValues =>
              ~(ElemGet(heap, Holder(p, i), k).t = "ref"
                /\ MacroNode(heap, ElemGet(heap, Holder(p, i), k).v))
        /\ (IsMap(pre, Holder(p, i)) /\ IsMap(pre, TemplateOf(Holder(p, i).v))
            /\ IsMap(heap, ElemGet(heap, Holder(p, i), k))) =>
              TemplateKeys(Holder(p, i).v)
                  \subseteq DOMAIN heap[ElemGet(heap, Holder(p, i), k).v].val

\* C18: when the resolution of a node raises during updateConfig, the error
\* reaches the caller and the traversal stops: the nodes after it in
\* depth-first pre-order are as they were, and the replacements and template
\* copies made for the nodes before it stay.
C18_ErrorStopsTraversal ==
    Failed =>
        /\ ret.st \in {"MandatoryValueMissing", "InvalidMacroKey", "InvalidCallback"}
        /\ FailPaths # {}
        /\ \A p \in FailPaths : LaterUntouched(p) /\ EarlierKept(p)
\* B.u raised: A has its resolved value and its copies, C has received nothing
C18_Witness ==
    /\ Failed /\ calls = 1 /\ args.exclude = <<>>
    /\ FailPaths = {<<S("B"), S("u")>>}
    /\ PropGet(heap, PropGet(heap, root, <<"A">>), <<"u">>) = S("a")
    /\ PropGet(heap, PropGet(heap, root, <<"A">>), <<"p">>) = S("1")
    /\ heap[PropGet(heap, root, <<"C">>).v] = pre[PropGet(heap, root, <<"C">>).v]
    /\ heap[PropGet(heap, root, <<"C">>).v].keys = << <<"d">> >>

\* ------------------------------------------------------------------------
\* The repository chain: register, unregister, reset
\* ------------------------------------------------------------------------
\* the objects of the run: process.env and two sources that either resolver
\* can read
ChainBase ==
    LoadChain(<<Entry("env", "default", EnvSource),
                Entry("r1", "default", TMap(<< <<kU, S("1")>>, <<<<"v">>, S("a")>> >>)),
                Entry("r2", "default", TMap(<< <<kU, S("2")>>, <<<<"v">>, S("b")>> >>))>>)
process_env == ChainBase.reps[1].source

\* reset(): the chain is emptied and process.env registered as "env"
\* variant: the chain is not emptied first
reset_KeepChain(W) == register(W, "env", process_env, DEFAULT_INDEX, Undef)
reset(W) ==
    register([W EXCEPT !.reps = <<>>], "env", process_env, DEFAULT_INDEX, Undef)

\* getRepositoryNames()
getRepositoryNames(W) == Return(W, [i \in 1 .. Len(W.reps) |-> W.reps[i].name])

\* the number of calls made on one chain
MaxChainCalls == 3

\* the arguments of the calls
RegisterNames == {"env", "r1", "r2"}
RegisterSources == {ChainBase.reps[2].source, ChainBase.reps[3].source}
RegisterIndexes == {0 - 5, 0 - 1, 0, 1, DEFAULT_INDEX}
RegisterResolvers == {Undef, Fn("custom")}

\* new ConfigUpdater(): the constructor calls reset()
InitChain ==
    StartWith([h |-> ChainBase.h, reps |-> reset(World(ChainBase.h, <<>>, <<>>)).reps],
              M(kU))

Register ==
    /\ calls < MaxChainCalls
    /\ \E name \in RegisterNames, repository \in RegisterSources,
          index \in RegisterIndexes, resolver \in RegisterResolvers :
        Outcome(register(World(heap, repositories, <<>>), name, repository, index,
                         resolver),
                "register",
                [NoArgs EXCEPT !.name = name, !.value = repository, !.index = index,
                               !.resolver = resolver])
Unregister ==
    /\ calls < MaxChainCalls
    /\ \E name \in RegisterNames :
        Outcome(unregister(World(heap, repositories, <<>>), name), "unregister",
                [NoArgs EXCEPT !.name = name])
Reset ==
    /\ calls < MaxChainCalls
    /\ Outcome(reset(World(heap, repositories, <<>>)), "reset", NoArgs)
GetRepositoryNames ==
    /\ calls < MaxChainCalls
    /\ Outcome(getRepositoryNames(World(heap, repositories, <<>>)),
               "getRepositoryNames", NoArgs)
\* getCmValue(root, []) on the chain as it is
Lookup ==
    /\ calls < MaxChainCalls
    /\ Outcome(getCmValue(World(heap, repositories, <<>>), root, <<>>), "getCmValue",
               [NoArgs EXCEPT !.value = root])

NextChain == Register \/ Unregister \/ Reset \/ GetRepositoryNames \/ Lookup

SpecChain == InitChain /\ [][NextChain]_vars

\* ------------------------------------------------------------------------
\* Names in the chain (SpecChain)
\* ------------------------------------------------------------------------
NamesDistinct ==
    \A i, j \in 1 .. Len(repositories) :
        i # j => repositories[i].name # repositories[j].name
Positions(reps, name) == {i \in 1 .. Len(reps) : reps[i].name = name}
\* a register call with a name the chain has
ReRegister == op' = "register" /\ Positions(repositories, args'.name) # {}
\* every resolver call of a lookup was made on an entry of the chain
LookupsSeeChain ==
    op = "getCmValue" =>
        \A e \in 1 .. Len(log) :
            log[e].ev = "query" =>
                /\ log[e].idx + 1 \in 1 .. Len(repositories)
                /\ log[e].name = repositories[log[e].idx + 1].name
                /\ log[e].res = CallResolver(heap, repositories[log[e].idx + 1],
                                             log[e].key)

\* C19: after any sequence of register, unregister and reset calls the names
\* in the chain are pairwise distinct; register with a name the chain has
\* leaves its length unchanged, the name occurring once, bound to the new
\* source and resolver; lookups ask the entries of the chain as it is.
C19_NamesUnique ==
    /\ [](NamesDistinct /\ LookupsSeeChain)
    /\ [][ReRegister =>
            /\ Len(repositories') = Len(repositories)
            /\ \E i \in 1 .. Len(repositories') :
                  /\ Positions(repositories', args'.name) = {i}
                  /\ repositories'[i].source = args'.value
                  /\ repositories'[i].resolver = ResolverOrDefault(args'.resolver)]_vars
\* "env", bound to process.env by the constructor, was registered again
C19_Witness ==
    /\ calls = 1 /\ op = "register" /\ args.name = "env"
    /\ args.value # process_env /\ args.resolver = Fn("custom")
    /\ Len(repositories) = 1
    /\ repositories[1] = Entry("env", "custom", args.value)

\* ------------------------------------------------------------------------
\* The index of register (SpecChain)
\* ------------------------------------------------------------------------
\* C20: register puts the new entry at the end of the chain for every index
\* outside 0..n, negative ones included, and for the default index.
C20_OutOfRangeAtEnd ==
    (/\ op = "register"
     /\ args.index < 0 \/ args.index > Len(repositories) - 1) =>
        repositories[Len(repositories)].name = args.name

\* ------------------------------------------------------------------------
\* The position of a new entry (SpecChain)
\* ------------------------------------------------------------------------
NamesOf(reps) == [i \in 1 .. Len(reps) |-> reps[i].name]
\* a register call with a new name and an index within 0..n
RegisterNewInRange ==
    /\ op' = "register"
    /\ Positions(repositories, args'.name) = {}
    /\ args'.index \in 0 .. Len(repositories)
NewEntry == Entry(args'.name, ResolverOrDefault(args'.resolver), args'.value)

\* C21: register(name, source, i) with 0 <= i <= n, name not in the chain,
\* puts the new entry at position i and keeps the order of the entries the
\* chain had; getRepositoryNames returns the names in the order of the chain.
C21_InsertAtIndex ==
    /\ [](op = "getRepositoryNames" => ret.val = NamesOf(repositories))
    /\ [][RegisterNewInRange =>
            repositories' = SubSeq(repositories, 1, args'.index) \o <<NewEntry>>
                \o SubSeq(repositories, args'.index + 1, Len(repositories))]_vars
\* two new names were registered at index 0, one after the other
C21_Witness ==
    /\ calls = 2 /\ op = "register" /\ args.index = 0 /\ args.name = "r2"
    /\ NamesOf(repositories) = <<"r2", "r1", "env">>

\* ------------------------------------------------------------------------
\* unregister (SpecChain)
\* ------------------------------------------------------------------------
FirstPosition(reps, name) ==
    CHOOSE i \in Positions(reps, name) : \A j \in Positions(reps, name) : i <= j
\* what unregister(name) does to the chain and what it returns
UnregisterStep ==
    op' = "unregister" =>
        /\ ret'.st = "ok"
        /\ IF Positions(repositories, args'.name) # {}
           THEN /\ ret'.val = Bool(TRUE)
                /\ repositories' =
                      SubSeq(repositories, 1, FirstPosition(repositories, args'.name) - 1)
                      \o SubSeq(repositories, FirstPosition(repositories, args'.name) + 1,
                                Len(repositories))
                /\ Positions(repositories', args'.name) = {}
           ELSE /\ ret'.val = Bool(FALSE)
                /\ repositories' = repositories
\* a lookup asks only entries the chain has when it is made
LookupStep ==
    op' = "getCmValue" =>
        \A e \in 1 .. Len(log') :
            log'[e].ev = "query" =>
                \E i \in 1 .. Len(repositories) :
                    /\ repositories[i].name = log'[e].name
                    /\ log'[e].res = CallResolver(heap, repositories[i], log'[e].key)

\* C22: unregister(name) returns true exactly when the chain had an entry
\* with that name, and then that one entry is gone and the others keep their
\* order; otherwise it returns false, raises nothing and leaves the chain as
\* it was. Lookups made afterwards ask only the entries left.
C22_UnregisterResult == [][UnregisterStep /\ LookupStep]_vars
\* the middle one of three entries was removed
C22_Witness ==
    /\ calls = 3 /\ op = "unregister" /\ args.name = "r1"
    /\ ret.val = Bool(TRUE)
    /\ NamesOf(repositories) = <<"r2", "env">>

\* ------------------------------------------------------------------------
\* reset (SpecChain)
\* ------------------------------------------------------------------------
\* C23: after reset(), whatever the chain was, the chain is the single entry
\* "env", bound to the environment source and the default resolver.
C23_ResetLeavesEnv ==
    [][op' = "reset" =>
          /\ ret'.st = "ok"
          /\ repositories' = <<Entry("env", "default", process_env)>>]_vars
\* reset was the third call, made after the chain had been changed
C23_Witness ==
    /\ calls = 3 /\ op = "reset"
    /\ Len(repositories) = 1
    /\ repositories[1].name = "env" /\ repositories[1].source = process_env

\* ------------------------------------------------------------------------
\* The default resolver (SpecResolve)
\* ------------------------------------------------------------------------
\* a nested lookup: one level down per segment through mappings and
\* sequences, absent when the segment is missing or the value has no levels
RECURSIVE NestedLookup(_, _, _, _)
NestedLookup(h, x, segments, i) ==
    IF i > Len(segments) THEN x
    ELSE IF x.t = "ref" /\ HasOwn(h, x, segments[i])
              /\ ~LooseUndef(PropGet(h, x, segments[i]))
         THEN NestedLookup(h, PropGet(h, x, segments[i]), segments, i + 1)
         ELSE Undef

\* C24: the default resolver returns the value reached by descending one
\* level per segment of the key, and absent as soon as a segment is missing;
\* it agrees with a nested lookup for every source and key.
C24_DefaultResolverIsNestedLookup ==
    \A e \in 1 .. Len(log) :
        (log[e].ev = "query" /\ repositories[log[e].idx + 1].resolver = "default") =>
            log[e].res = NestedLookup(pre, repositories[log[e].idx + 1].source,
                                      log[e].key, 1)

\* ------------------------------------------------------------------------
\* getValue
\* ------------------------------------------------------------------------
\* Array.isArray(parentKeyOrPath) ? parentKeyOrPath : [parentKeyOrPath], the
\* parameter being [] when it is not given; an array has t = "arr"
PathArg(parentKeyOrPath) ==
    IF parentKeyOrPath.t = "arr" THEN parentKeyOrPath.v
    ELSE IF parentKeyOrPath = Undef THEN <<>>
         ELSE <<parentKeyOrPath>>
\* getCmValue on the macro that new CM(...) built
ResolveConstructed(W, built, path) ==
    IF built.st # "ok" THEN Raise(W, built.st, Undef)
    ELSE getCmValue([W EXCEPT !.h = Load(@, built.tree).h],
                    Load(W.h, built.tree).val, path)
\* getValue(propertyKey, defaultValue = undefined, parentKeyOrPath = [])
getValue(W, propertyKey, defaultValue, parentKeyOrPath) ==
    ResolveConstructed(W, Construct(propertyKey, defaultValue),
                       PathArg(parentKeyOrPath))

\* the number of getValue calls of a run
MaxValueCalls == 1
\* what getValue is given
ValueKeys == {Str(kU), Str(kPU), Str(kX), Str(<<>>)}
ValueParents ==
    {Undef, S("A"), [t |-> "arr", v |-> <<S("A")>>],
     [t |-> "arr", v |-> <<S("A"), S("f")>>]}

\* a chain is registered
InitValue == \E chain \in TreeChains : StartWith(LoadChain(chain), Undef)

GetValue ==
    /\ calls < MaxValueCalls
    /\ \E propertyKey \in ValueKeys, defaultValue \in ConstructorDefaults,
          parentKeyOrPath \in ValueParents :
        Outcome(getValue(World(heap, repositories, <<>>), propertyKey, defaultValue,
                         parentKeyOrPath),
                "getValue",
                [NoArgs EXCEPT !.value = propertyKey, !.defaultValue = defaultValue,
                               !.parentKeyOrPath = parentKeyOrPath])

NextValue == GetValue

SpecValue == InitValue /\ [][NextValue]_vars

\* ------------------------------------------------------------------------
\* getValue with a parent-dependent key (SpecValue)
\* ------------------------------------------------------------------------
\* the resolver calls made for the macro getValue built, the object added
\* to the heap
ValueQueries ==
    {e \in 1 .. Len(log) : log[e].ev = "query" /\ log[e].cm = Ref(Len(pre) + 1)}

\* C25: getValue(key, default, parentKey) with a key that starts with "?"
\* looks up parentKey followed by the rest of the key.
C25_GetValueParentKey ==
    (/\ op = "getValue"
     /\ args.value.t = "str" /\ StartsWith(args.value.v, PARENT_DEPENDENT_INDICATOR)
     /\ args.parentKeyOrPath.t = "str") =>
        /\ ret.st = "ok"
        /\ repositories # <<>> => ValueQueries # {}
        /\ \A e \in ValueQueries :
              log[e].key =
                  Split(args.parentKeyOrPath.v
                        \o Substring(args.value.v, Len(PARENT_DEPENDENT_INDICATOR)))

\* ------------------------------------------------------------------------
\* The key of a built macro (SpecCM)
\* ------------------------------------------------------------------------
\* the constructor built a macro; the keys it is given in this model all
\* give a $$ that is a non-empty string
BuiltMacro == root.t = "ref" /\ MacroNode(heap, root.v)

\* C26: after any sequence of parentDependent, default, mandatory and
\* callback calls on a macro built from a non-empty string key, the key
\* field is a non-empty string, and resolving the macro does not raise the
\* invalid-key error.
C26_KeyStaysValid ==
    BuiltMacro =>
        /\ ValidKey(PropGet(heap, root, KEY_KEY))
        /\ op = "getCmValue" => ret.st # "InvalidMacroKey"

\* ------------------------------------------------------------------------
\* What the setters return (SpecCM)
\* ------------------------------------------------------------------------
\* C27: default, mandatory, callback and parentDependent return the macro
\* they were called on.
C27_SettersReturnMacro ==
    (op \in {"default", "mandatory", "callback", "parentDependent"} /\ ret.st = "ok") =>
        ret.val = root

\* ------------------------------------------------------------------------
\* Parent-dependent defaults (SpecResolve)
\* ------------------------------------------------------------------------
\* the path of the enclosing macro: the path without the entries pushed for
\* defaults
RECURSIVE EnclosingPath(_)
EnclosingPath(path) ==
    IF path # <<>> /\ IsMarker(path[Len(path)])
    THEN EnclosingPath(SubSeq(path, 1, Len(path) - 1))
    ELSE path
\* the parent-dependent lookups made for defaults
DefaultLookups ==
    {e \in 1 .. Len(log) :
        /\ log[e].ev = "query"
        /\ RawKey(e)[1] = "?"
        /\ log[e].path # <<>> /\ IsMarker(log[e].path[Len(log[e].path)])}

\* C28: a default that is a macro with a parent-dependent key is looked up
\* with the parent name used for the enclosing macro at that position, at
\* every depth of default nesting.
C28_DefaultSameParent ==
    op = "getCmValue" =>
        \A e \in DefaultLookups :
            LookedUpAs(e, ParentOf(EnclosingPath(log[e].path)))

\* ------------------------------------------------------------------------
\* The sources are only read (Spec)
\* ------------------------------------------------------------------------
\* the objects of the registered sources
SourceObjects ==
    UNION {ObjectsAt(heap, repositories[i].source) : i \in 1 .. Len(repositories)}

\* C29: updateConfig only reads the registered sources: after the call every
\* source has the contents it had, and the chain has the same entries in
\* the same order.
C29_SourcesOnlyRead ==
    [][op' = "updateConfig" =>
          /\ repositories' = repositories
          /\ \A a \in SourceObjects : heap'[a] = heap[a]]_vars

\* ------------------------------------------------------------------------
\* Resolvers that change the chain while a resolve runs
\* ------------------------------------------------------------------------
\* chains with resolvers that call unregister or register
ReentrantChains ==
    { <<Entry("d", "dropSelf", EnvSource), Entry("r1", "default", Source1(Num(0))),
        Entry("r2", "default", Source2)>>,
      <<Entry("r1", "default", Source1(Num(0))), Entry("d", "dropSelf", EnvSource)>>,
      <<Entry("a", "addFirst", EnvSource), Entry("r1", "default", Source1(Num(0)))>>,
      <<Entry("r2", "default", Source2), Entry("a", "addFirst", EnvSource),
        Entry("r1", "default", Source1(Num(0)))>>,
      <<Entry("d", "dropSelf", EnvSource), Entry("a", "addFirst", EnvSource),
        Entry("r1", "default", Source1(Num(0))), Entry("r2", "default", Source2)>>,
      <<Entry("d", "dropSelf", EnvSource), Entry("e", "dropSelf", EnvSource),
        Entry("r1", "default", Source1(Num(0))), Entry("r2", "default", Source2)>>,
      <<Entry("a", "addFirst", EnvSource), Entry("d", "dropSelf", EnvSource),
        Entry("r1", "default", Source1(Num(0)))>> }
\* macros without macros as defaults: every resolver call is made for them
ReentrantMacros ==
    { M(kU), M(kY), M(kX), MD(kX, S("D")), Macro(kX, <<Mandatory>>) }

InitReentrant ==
    \E chain \in ReentrantChains, m \in ReentrantMacros :
        StartWith(LoadChain(chain), m)

\* getCmValue(root, path)
ResolveReentrant ==
    /\ calls < MaxCalls
    /\ \E path \in BuilderPaths :
        Outcome(getCmValue(World(heap, repositories, <<>>), root, path),
                "getCmValue", [NoArgs EXCEPT !.value = root, !.path = path])

NextReentrant == ResolveReentrant

SpecReentrant == InitReentrant /\ [][NextReentrant]_vars

\* ------------------------------------------------------------------------
\* The search in a chain that changes (SpecReentrant)
\* ------------------------------------------------------------------------
\* the step of a resolve, and the resolver calls it made
ResolveStep == op' = "getCmValue"
Queries == {e \in 1 .. Len(log') : log'[e].ev = "query"}
\* the chain when the resolve started
StartNames == {repositories[i].name : i \in 1 .. Len(repositories)}
StartPos(name) == (CHOOSE i \in 1 .. Len(repositories) : repositories[i].name = name) - 1
StartResolver(name) == repositories[StartPos(name) + 1].resolver
\* the entries that were in the chain at the start and are in it at the end
Remaining == {n \in StartNames : \E j \in 1 .. Len(repositories') : repositories'[j].name = n}
FoundBefore(n) ==
    \E e \in Queries :
        /\ Found(log'[e].res)
        /\ log'[e].name \in StartNames
        /\ StartPos(log'[e].name) < StartPos(n)

\* C30: when a resolver calls unregister or register during a resolve, the
\* search still asks, in priority order, every entry that was in the chain
\* at the start and was not removed, until one returns non-absent: none is
\* skipped and none is asked twice.
C30_RemainingAskedOnce ==
    [][ResolveStep =>
          /\ \A n \in Remaining :
                FoundBefore(n) \/ \E e \in Queries : log'[e].name = n
          /\ \A e, f \in Queries : e # f => log'[e].name # log'[f].name
          /\ \A e, f \in Queries :
                (e < f /\ {log'[e].name, log'[f].name} \subseteq StartNames) =>
                    StartPos(log'[e].name) < StartPos(log'[f].name)]_vars

\* the resolver calls before call e whose resolver removed its own entry
Drops(e) ==
    Cardinality({f \in Queries : f < e /\ StartResolver(log'[f].name) = "dropSelf"})
\* 1 when a resolver call before call e put a new entry in front
Shift(e) ==
    IF /\ "x" \notin StartNames
       /\ \E f \in Queries : f < e /\ StartResolver(log'[f].name) = "addFirst"
    THEN 1 ELSE 0

\* C30, as the loop works: the search goes on by position in the chain as
\* the resolvers left it. Call number i asks the entry at position i; after
\* a resolver removed its own entry the entries behind it are one position
\* nearer, so the next one is skipped; after a resolver put an entry in
\* front they are one position further, so that resolver is asked again.
\* The search stops at the first result that is not absent or past the end.
C30_SearchByPosition ==
    [][ResolveStep =>
          /\ \A e \in Queries :
                /\ log'[e].idx = Cardinality({f \in Queries : f < e})
                /\ log'[e].name \in StartNames
                /\ StartPos(log'[e].name) = log'[e].idx + Drops(e) - Shift(e)
                /\ Found(log'[e].res) => \A f \in Queries : f <= e
          /\ (\A e \in Queries : ~Found(log'[e].res)) =>
                Cardinality(Queries) >= Len(repositories')]_vars
\* "d" removed itself, "r1" was skipped and "r2" gave the value
C30_Witness ==
    /\ op = "getCmValue" /\ calls = 1
    /\ Len(log) = 2
    /\ log[1].name = "d" /\ log[2].name = "r2" /\ log[2].idx = 1
    /\ ret.val = S("2")
    /\ NamesOf(repositories) = <<"r1", "r2">>
====
